---- MODULE Spec2Model ----
(***************************************************************************)
(* Frame ingestion pipeline of camera_example1_callback.c: the ring of     *)
(* frames in shared memory, the latest-frame slot, the metadata record,    *)
(* the name pointer record, the JPEG stream and the teardown in main.      *)
(***************************************************************************)
EXTENDS Integers, Sequences, FiniteSets, TLC

(* ------------------------------------------------------------------ *)
(* Program constants                                                   *)
(* ------------------------------------------------------------------ *)
MAX_FRAMES == 5
LenBytes == 8
NameRecSize == 256
MetadataSize == 24

(* ------------------------------------------------------------------ *)
(* Bounds of the model                                                 *)
(* ------------------------------------------------------------------ *)
MaxCallbacks == 7
MaxAnomalies == 1
JpegLenSpread == 2
MaxWidth == 3
MaxHeight == 2
MaxPad == 2

NULL == 0
MAP_FAILED == -1
MetaMapId == 1

(* Frametypes; NV12 is a camera frametype with no case in any switch. *)
SupportedTypes == {"RGB8888", "BGR8888", "YCBYCR", "CBYCRY"}
UnsupportedType == "NV12"
UNSPECIFIED == "UNSPECIFIED"

cSupportedFrametypes ==
    { [frametype |-> "RGB8888", width |-> 2, height |-> 1, stride |-> 8],
      [frametype |-> "BGR8888", width |-> 1, height |-> 1, stride |-> 4],
      [frametype |-> "YCBYCR",  width |-> 2, height |-> 1, stride |-> 4],
      [frametype |-> "CBYCRY",  width |-> 2, height |-> 2, stride |-> 4] }

FrameName(i) ==
    CASE i = 0 -> "/camera_frame_0"
      [] i = 1 -> "/camera_frame_1"
      [] i = 2 -> "/camera_frame_2"
      [] i = 3 -> "/camera_frame_3"
      [] OTHER -> "/camera_frame_4"

Slots == 0 .. (MAX_FRAMES - 1)
RingNames == { FrameName(i) : i \in Slots }
LatestName == "/camera_latest"
LatestNameRec == "/camera_latest_name"
MetadataName == "/camera_metadata"
Names == RingNames \cup {LatestName, LatestNameRec, MetadataName}

NoSeg == [linked |-> FALSE, size |-> 0, data |-> 0]
ZeroFrame == [frametype |-> UNSPECIFIED, width |-> 0, height |-> 0,
              stride |-> 0, shm_name |-> NULL, mapped_data |-> NULL, data_size |-> 0]
ZeroMetadata == [frametype |-> UNSPECIFIED, width |-> 0, height |-> 0, size |-> 0]

SysOutcomes == {"ok", "open_fail", "trunc_fail", "map_fail"}

VARIABLES
    frame_buffer,     \* Frame frame_buffer[MAX_FRAMES]
    buffer_head,
    buffer_count,
    latest_shm_name,  \* heap pointer (NULL, or an allocation id)
    latest_mapped,    \* NULL, MAP_FAILED, or a mapping id (maybe stale)
    latest_size,
    metadata_mapped,  \* pointer to the mapped Metadata record
    metadata,         \* contents of the /camera_metadata record
    name_record,      \* contents of the /camera_latest_name record
    sock,             \* the socket descriptor held in sock
    conn,             \* state of that descriptor: "none", "connected", "closed"
    shm,              \* the shared memory namespace: name -> segment
    maps,             \* the producer's address space: mapping id -> name
    freedAt,          \* released mapping id -> time of its last munmap
    heap,             \* live strdup allocations: id -> string
    wire,             \* bytes the transport accepted, in order
    pc,               \* "start", "streaming", "exited" or "failed" (exit status)
    ncb,              \* callbacks delivered so far
    anomalies,        \* failing calls and odd frames injected so far
    format,           \* the frame format the camera delivers
    pushed,           \* frames stored in the ring, in push order
    encoded,          \* JPEG blobs handed to send, in order
    tdRuns,           \* runs of the teardown step
    log,              \* what the last operation did
    buffer,           \* camera_buffer_t handed to the statistics
    channelAverage,   \* double channelAverage[3], as sum and divisor
    reads,            \* offsets of framebuf added to each channel
    statpc,           \* "idle", "ready" or "done"
    frame_mutex,      \* owner of frame_mutex: "free", "producer", "reader"
    ppc,              \* where the callback thread is in processCameraData
    rpc,              \* where a reader thread is in get_latest_frame
    latest_index,     \* get_latest_frame's local variable
    ret               \* what get_latest_frame returned, and the slot then

vars == << frame_buffer, buffer_head, buffer_count, latest_shm_name,
           latest_mapped, latest_size, metadata_mapped, metadata,
           name_record, sock, conn, shm, maps, freedAt, heap, wire, pc, ncb,
           anomalies, format, pushed, encoded, tdRuns, log,
           buffer, channelAverage, reads, statpc,
           frame_mutex, ppc, rpc, latest_index, ret >>

statVars == << buffer, channelAverage, reads, statpc >>

thrVars == << frame_mutex, ppc, rpc, latest_index, ret >>

(* ------------------------------------------------------------------ *)
(* Pure helpers                                                        *)
(* ------------------------------------------------------------------ *)
get_frame_size(f) ==
    CASE f.frametype = "RGB8888" -> f.width * f.height * 4
      [] f.frametype = "BGR8888" -> f.width * f.height * 4
      [] f.frametype = "YCBYCR"  -> f.width * f.height * 2
      [] f.frametype = "CBYCRY"  -> f.width * f.height * 2
      [] OTHER -> 0

get_latest_frame_offbyone(head, count) ==
    IF count = 0 THEN -1 ELSE (head + count) % MAX_FRAMES

get_latest_frame(head, count) ==
    IF count = 0 THEN -1 ELSE (head + count - 1) % MAX_FRAMES

RECURSIVE ByteAt(_, _)
ByteAt(n, i) == IF i = 1 THEN n % 256 ELSE ByteAt(n \div 256, i - 1)

(* the unsigned long jpeg_size as the bytes send() reads (little endian) *)
LenPrefix(n) == [ i \in 1 .. LenBytes |-> ByteAt(n, i) ]

(* libjpeg's output for the frame whose pixels are payload d: opaque bytes *)
JpegLen(d) == 1 + (d % JpegLenSpread)
compress_to_jpeg(d) == [ i \in 1 .. JpegLen(d) |-> (16 * d + i) % 256 ]

Take(s, k) == SubSeq(s, 1, k)

NoFrame == [frametype |-> UNSPECIFIED, width |-> 0, height |-> 0,
            stride |-> 0, data |-> 0]
AllOk == [ring |-> "ok", latest |-> "ok", name |-> "ok", malloc |-> "ok",
          jpeg |-> "ok", send1 |-> LenBytes, send2 |-> 0]

EmptyLog == [op |-> "init", frame |-> NoFrame, out |-> AllOk,
             head0 |-> 0, count0 |-> 0, meta0 |-> ZeroMetadata,
             latest0 |-> NULL,
             opened |-> {}, unlinked |-> {}, released |-> {}, bad |-> {},
             stored |-> FALSE, evicted |-> {}, sends |-> 0,
             stats |-> "none", stages |-> {}, target |-> -1,
             targetLive |-> FALSE]

(* ------------------------------------------------------------------ *)
(* The program state as one record, and the system calls on it         *)
(* ------------------------------------------------------------------ *)
St == [ frame_buffer |-> frame_buffer, buffer_head |-> buffer_head,
        buffer_count |-> buffer_count, latest_shm_name |-> latest_shm_name,
        latest_mapped |-> latest_mapped, latest_size |-> latest_size,
        metadata_mapped |-> metadata_mapped, metadata |-> metadata,
        name_record |-> name_record, sock |-> sock, conn |-> conn,
        shm |-> shm, maps |-> maps, freedAt |-> freedAt, heap |-> heap,
        wire |-> wire, pc |-> pc, ncb |-> ncb, pushed |-> pushed,
        encoded |-> encoded, tdRuns |-> tdRuns, log |-> log, clock |-> 0 ]

Assign(s) ==
    /\ frame_buffer' = s.frame_buffer
    /\ buffer_head' = s.buffer_head
    /\ buffer_count' = s.buffer_count
    /\ latest_shm_name' = s.latest_shm_name
    /\ latest_mapped' = s.latest_mapped
    /\ latest_size' = s.latest_size
    /\ metadata_mapped' = s.metadata_mapped
    /\ metadata' = s.metadata
    /\ name_record' = s.name_record
    /\ sock' = s.sock
    /\ conn' = s.conn
    /\ shm' = s.shm
    /\ maps' = s.maps
    /\ freedAt' = s.freedAt
    /\ heap' = s.heap
    /\ wire' = s.wire
    /\ pc' = s.pc
    /\ ncb' = s.ncb
    /\ pushed' = s.pushed
    /\ encoded' = s.encoded
    /\ tdRuns' = s.tdRuns
    /\ log' = s.log

Upd(f, k, v) == [ x \in (DOMAIN f) \cup {k} |-> IF x = k THEN v ELSE f[x] ]
Without(f, k) == [ x \in (DOMAIN f) \ {k} |-> f[x] ]

Bad(s, what) == [s EXCEPT !.log.bad = @ \cup {what}]

Stage(s, which) == [s EXCEPT !.log.stages = @ \cup {which}]

(* munmap(p, len).  A pointer that is no mapping of the process is either  *)
(* refused, or - when the address was handed out again since its release - *)
(* takes the mapping that now lives there with it.                         *)
Munmap(s, p) ==
    IF p \in DOMAIN s.maps
    THEN { [s EXCEPT !.maps = Without(@, p),
                     !.freedAt = Upd(@, p, s.clock),
                     !.log.released = @ \cup {p}] }
    ELSE IF p \notin DOMAIN s.freedAt
    THEN { Bad(s, "munmap_invalid") }
    ELSE LET stale == [Bad(s, "munmap_stale") EXCEPT
                          !.freedAt = Upd(@, p, s.clock)]
         IN  {stale} \cup
             { [stale EXCEPT !.maps = Without(@, g),
                             !.freedAt = Upd(@, g, s.clock)]
               : g \in { h \in DOMAIN s.maps : h >= s.freedAt[p] } }

ShmUnlink(s, name) ==
    IF s.shm[name].linked
    THEN [s EXCEPT !.shm[name] = NoSeg,
                   !.name_record = IF name = LatestNameRec THEN "" ELSE @,
                   !.log.unlinked = @ \cup {name}]
    ELSE Bad(s, "unlink_missing")

(* shm_unlink(ptr): the name is read through a heap pointer *)
ShmUnlinkPtr(s, p) ==
    IF p \in DOMAIN s.heap THEN ShmUnlink(s, s.heap[p])
    ELSE Bad(s, "name_use_after_free")

Free(s, p) ==
    IF p \in DOMAIN s.heap THEN [s EXCEPT !.heap = Without(@, p)]
    ELSE IF p = NULL THEN s
    ELSE Bad(s, "double_free")

(* shm_open(name, O_CREAT | O_RDWR): creates an empty segment if none *)
ShmOpen(s, name) ==
    [s EXCEPT !.shm[name] = IF @.linked THEN @
                            ELSE [linked |-> TRUE, size |-> 0, data |-> 0],
              !.log.opened = @ \cup {name}]

Ftruncate(s, name, size) ==
    [s EXCEPT !.shm[name] = [@ EXCEPT !.size = size,
                                      !.data = IF size = 0 THEN 0 ELSE @]]

(* ------------------------------------------------------------------ *)
(* processCameraData, stage by stage                                   *)
(* ------------------------------------------------------------------ *)
(* the eviction with the head left where it was *)
EvictOldest_keephead(s) ==
    IF s.buffer_count # MAX_FRAMES THEN {s}
    ELSE LET old == s.frame_buffer[s.buffer_head]
         IN  { [ Free(ShmUnlinkPtr(u, old.shm_name), old.shm_name) EXCEPT
                   !.buffer_count = @ - 1,
                   !.log.evicted = @ \cup {s.buffer_head} ]
               : u \in Munmap(s, old.mapped_data) }

(* the eviction with the count left where it was *)
EvictOldest_keepcount(s) ==
    IF s.buffer_count # MAX_FRAMES THEN {s}
    ELSE LET old == s.frame_buffer[s.buffer_head]
         IN  { [ Free(ShmUnlinkPtr(u, old.shm_name), old.shm_name) EXCEPT
                   !.buffer_head = (@ + 1) % MAX_FRAMES,
                   !.log.evicted = @ \cup {s.buffer_head} ]
               : u \in Munmap(s, old.mapped_data) }

(* lines 360-367: free the oldest frame of a full ring *)
EvictOldest(s) ==
    IF s.buffer_count # MAX_FRAMES THEN {s}
    ELSE LET old == s.frame_buffer[s.buffer_head]
         IN  { [ Free(ShmUnlinkPtr(u, old.shm_name), old.shm_name) EXCEPT
                   !.buffer_head = (@ + 1) % MAX_FRAMES,
                   !.buffer_count = @ - 1,
                   !.log.evicted = @ \cup {s.buffer_head} ]
               : u \in Munmap(s, old.mapped_data) }

(* lines 368-388: create, size, map and fill the segment of the next slot *)
WriteFrame(u, f, ro) ==
    LET size == get_frame_size(f)
        id == u.clock
        index == (u.buffer_head + u.buffer_count) % MAX_FRAMES
        name == FrameName(index)
        v == [Stage(u, "store") EXCEPT
                !.log.target = index,
                !.log.targetLive =
                    index \in { (u.buffer_head + k) % MAX_FRAMES
                                : k \in 0 .. (u.buffer_count - 1) }]
        o == ShmOpen(v, name)
        t == Ftruncate(o, name, size)
    IN  IF ro = "open_fail" THEN v
        ELSE IF ro = "trunc_fail" THEN o
        ELSE IF ro = "map_fail" \/ size = 0 THEN t
        ELSE [t EXCEPT
                !.maps = Upd(@, id, name),
                !.shm[name].data = f.data,
                !.frame_buffer[index] =
                    [frametype |-> f.frametype, width |-> f.width,
                     height |-> f.height, stride |-> f.stride,
                     shm_name |-> id, mapped_data |-> id,
                     data_size |-> size],
                !.heap = Upd(@, id, name),
                !.buffer_count = @ + 1,
                !.pushed = Append(@, f),
                !.log.stored = TRUE]

(* lines 358-389: store the frame in the ring *)
StoreFrame(s, f, ro) == { WriteFrame(u, f, ro) : u \in EvictOldest(s) }

(* lines 391-411: replace the latest-frame segment *)
PublishLatest(s, f, lo) ==
    LET size == get_frame_size(f)
        id == s.clock
        Rel == IF s.latest_mapped = NULL THEN {s}
               ELSE { Free(ShmUnlinkPtr(u, s.latest_shm_name), s.latest_shm_name)
                      : u \in Munmap(s, s.latest_mapped) }
    IN  { LET d == [Stage(u, "latest") EXCEPT
                             !.heap = Upd(@, id, LatestName),
                             !.latest_shm_name = id]
              o == ShmOpen(d, LatestName)
              t == Ftruncate(o, LatestName, size)
          IN  IF lo = "open_fail" THEN d
              ELSE IF lo = "trunc_fail" THEN o
              ELSE IF lo = "map_fail" \/ size = 0
              THEN [t EXCEPT !.latest_mapped = MAP_FAILED]
              ELSE [t EXCEPT !.maps = Upd(@, id, LatestName),
                             !.latest_mapped = id,
                             !.shm[LatestName].data = f.data,
                             !.latest_size = size]
          : u \in Rel }

(* lines 413-440: overwrite the metadata record *)
PublishMetadata(s, f) ==
    LET known == f.frametype \in SupportedTypes
    IN  [Stage(s, "metadata") EXCEPT !.metadata =
            [frametype |-> f.frametype,
             width |-> IF known THEN f.width ELSE 0,
             height |-> IF known THEN f.height ELSE 0,
             size |-> get_frame_size(f)]]

(* lines 442-453: write the name pointer record *)
PublishName(s0, no) ==
    LET s == Stage(s0, "name")
        o == ShmOpen(s, LatestNameRec)
        t == Ftruncate(o, LatestNameRec, NameRecSize)
    IN  IF no = "open_fail" THEN s
        ELSE IF no = "trunc_fail" THEN o
        ELSE IF no = "map_fail" THEN t
        ELSE [t EXCEPT !.name_record = LatestName]

(* what one send() call puts on the wire when it returns n *)
Sent(buf, n) == IF n <= 0 THEN << >> ELSE Take(buf, n)

(* a sender that gives up on the frame and the socket when send fails *)
EncodeAndSend_giveup(s0, f, o) ==
    LET s == Stage(s0, "encode") IN
    IF ~(f.frametype = "RGB8888" /\ f.width > 0 /\ f.height > 0) THEN s0
    ELSE IF o.malloc = "fail" \/ o.jpeg = "null" THEN s
    ELSE IF s.conn # "connected" THEN s
    ELSE LET jpeg_data == compress_to_jpeg(f.data)
             jpeg_size == Len(jpeg_data)
         IN  IF o.send1 = -1
             THEN [s EXCEPT !.conn = "closed", !.log.sends = 1]
             ELSE [s EXCEPT
                     !.wire = @ \o Sent(LenPrefix(jpeg_size), o.send1)
                                \o Sent(jpeg_data, o.send2),
                     !.encoded = Append(@, jpeg_data),
                     !.conn = IF o.send2 = -1 THEN "closed" ELSE @,
                     !.log.sends = 2]

(* a sender that does not look at the frametype *)
EncodeAndSend_anylayout(s0, f, o) ==
    LET s == Stage(s0, "encode")
        jpeg_data == compress_to_jpeg(f.data)
        jpeg_size == Len(jpeg_data)
    IN  IF ~(f.width > 0 /\ f.height > 0) THEN s0
        ELSE IF o.malloc = "fail" \/ o.jpeg = "null" THEN s
        ELSE [s EXCEPT
                !.wire = @ \o Sent(LenPrefix(jpeg_size), LenBytes)
                           \o Sent(jpeg_data, jpeg_size),
                !.encoded = Append(@, jpeg_data),
                !.log.sends = 2]

(* lines 489-510: compress an RGB8888 frame and send it *)
EncodeAndSend(s0, f, o) ==
    LET s == Stage(s0, "encode") IN
    IF ~(f.frametype = "RGB8888" /\ f.width > 0 /\ f.height > 0) THEN s0
    ELSE IF o.malloc = "fail" \/ o.jpeg = "null" THEN s
    ELSE LET jpeg_data == compress_to_jpeg(f.data)
             jpeg_size == Len(jpeg_data)
         IN  [s EXCEPT
                !.wire = @ \o Sent(LenPrefix(jpeg_size), o.send1)
                           \o Sent(jpeg_data, o.send2),
                !.encoded = Append(@, jpeg_data),
                !.log.sends = 2]

(* lines 512-603: channel averages, or the unsupported-frametype report *)
ReportStats(s, f) ==
    [Stage(s, "stats") EXCEPT !.log.stats = IF f.frametype \in SupportedTypes
                            THEN "averages" ELSE "unsupported"]

(* entry of the callback: the n-th frame arrives *)
EnterCallback(s0, f, o) ==
    [s0 EXCEPT
       !.ncb = @ + 1, !.clock = 2 * (s0.ncb + 1),
       !.log = [EmptyLog EXCEPT
                  !.op = "callback", !.frame = f, !.out = o,
                  !.head0 = s0.buffer_head,
                  !.count0 = s0.buffer_count,
                  !.meta0 = s0.metadata,
                  !.latest0 = s0.latest_mapped]]

(* lines 391-603: everything after pthread_mutex_unlock *)
AfterUnlock(u, f, o) ==
    { ReportStats(EncodeAndSend(PublishName(PublishMetadata(v, f), o.name),
                                f, o), f)
      : v \in PublishLatest([u EXCEPT !.clock = 2 * u.ncb + 1], f, o.latest) }

processCameraData(s0, f, o) ==
    UNION { AfterUnlock(u, f, o)
            : u \in StoreFrame(EnterCallback(s0, f, o), f, o.ring) }

(* ------------------------------------------------------------------ *)
(* processCameraData, lines 512-590: the channel averages              *)
(* ------------------------------------------------------------------ *)
Channels == 0 .. 2

Packed == {"RGB8888", "BGR8888"}

(* bound of the inner loop: bytes of a line that hold pixels *)
LineBytes(f) == IF f.frametype \in Packed THEN 4 * f.width ELSE 2 * f.width

(* the channel byte i of a line is added to; 3 where the byte is skipped *)
Chan_bgr_unreversed(t, width, i) ==
    CASE t = "RGB8888" -> i % 4
      [] t = "BGR8888" -> i % 4
      [] t = "YCBYCR" -> IF i % 2 = 1 THEN (((i - 1) % 4) \div 2) + 1 ELSE 0
      [] t = "CBYCRY" ->
            IF (i + 1) % 2 = 1 THEN (((i + 1) % 4) + 1) \div 2 ELSE 0

Chan(t, width, i) ==
    CASE t = "RGB8888" -> i % 4
      [] t = "BGR8888" ->
            IF i % 4 = 3 THEN 3 ELSE ((4 * width - i + 3) % 4) - 1
      [] t = "YCBYCR" -> IF i % 2 = 1 THEN (((i - 1) % 4) \div 2) + 1 ELSE 0
      [] t = "CBYCRY" ->
            IF (i + 1) % 2 = 1 THEN (((i + 1) % 4) + 1) \div 2 ELSE 0

NoStats == [sum |-> [c \in Channels |-> 0],
            reads |-> [c \in Channels |-> << >>]]

(* the two nested loops, n iterations of the inner body done so far *)
RECURSIVE Accumulate(_, _, _)
Accumulate(f, n, acc) ==
    IF n = f.height * LineBytes(f) THEN acc
    ELSE LET y == n \div LineBytes(f)
             i == n % LineBytes(f)
             off == y * f.stride + i
             chan == Chan(f.frametype, f.width, i)
         IN  Accumulate(f, n + 1,
                IF chan = 3 THEN acc
                ELSE [acc EXCEPT !.sum[chan] = @ + f.framebuf[off],
                                 !.reads[chan] = Append(@, off)])

(* what each channelAverage[chan] is divided by *)
Divisor(f, chan) ==
    IF f.frametype \in Packed \/ chan = 0 THEN f.width * f.height
    ELSE (f.width \div 2) * f.height

ChannelAverages(f) ==
    LET acc == Accumulate(f, 0, NoStats)
    IN  [avg |-> [c \in Channels |->
                    [sum |-> acc.sum[c], div |-> Divisor(f, c)]],
         reads |-> acc.reads]

(* ------------------------------------------------------------------ *)
(* main, lines 280-301: the teardown step                              *)
(* ------------------------------------------------------------------ *)
RECURSIVE FreeFrames(_, _)
FreeFrames(S, i) ==
    IF S = {} THEN {}
    ELSE LET any == CHOOSE u \in S : TRUE
         IN  IF i >= any.buffer_count THEN S
             ELSE FreeFrames(
                    UNION { LET fr == u.frame_buffer[(u.buffer_head + i) % MAX_FRAMES]
                            IN  { Free(ShmUnlinkPtr(v, fr.shm_name), fr.shm_name)
                                  : v \in Munmap(u, fr.mapped_data) }
                            : u \in S },
                    i + 1)

TeardownStep(s0) ==
    LET a == [s0 EXCEPT
                !.clock = 2 * (s0.ncb + 1) + s0.tdRuns,
                !.tdRuns = @ + 1,
                !.pc = "exited",
                !.log = [EmptyLog EXCEPT
                           !.op = "teardown",
                           !.head0 = s0.buffer_head,
                           !.count0 = s0.buffer_count,
                           !.meta0 = s0.metadata,
                           !.latest0 = s0.latest_mapped]]
        A == FreeFrames({a}, 0)
        B == UNION { IF u.metadata_mapped = NULL THEN {u}
                     ELSE { ShmUnlink(v, MetadataName)
                            : v \in Munmap(u, u.metadata_mapped) }
                     : u \in A }
        C == UNION { IF u.latest_mapped = NULL THEN {u}
                     ELSE { Free(ShmUnlinkPtr(v, u.latest_shm_name),
                                 u.latest_shm_name)
                            : v \in Munmap(u, u.latest_mapped) }
                     : u \in B }
    IN  { LET w == ShmUnlink(u, LatestNameRec)
          IN  IF w.sock = -1 THEN w
              ELSE IF w.conn = "closed" THEN Bad(w, "close_closed")
              ELSE [w EXCEPT !.conn = "closed"]
          : u \in C }

(* ------------------------------------------------------------------ *)
(* main, lines 156-278: startup, and the stop that precedes teardown   *)
(* ------------------------------------------------------------------ *)
SetupOutcomes ==
    {"no_unit", "camera_open", "shm_open", "ftruncate", "mmap", "socket",
     "connect", "get_vf_property", "start_viewfinder", "ok"}

SetupFailures ==
    {"camera_open", "shm_open", "ftruncate", "mmap", "socket", "connect",
     "get_vf_property", "frametype", "start_viewfinder"}

ExitFailure(u, step) == [u EXCEPT !.pc = "failed", !.log.out = step]

(* a startup that goes on streaming when connect has failed *)
StartupStep_ignoreconnect(s0, fmt, r) ==
    LET a == [s0 EXCEPT !.log = [EmptyLog EXCEPT !.op = "startup"]]
        o == ShmOpen(a, MetadataName)
        t == Ftruncate(o, MetadataName, MetadataSize)
        m == [t EXCEPT !.metadata_mapped = MetaMapId,
                       !.maps = Upd(@, MetaMapId, MetadataName),
                       !.metadata = ZeroMetadata]
        k == [m EXCEPT !.sock = 3]
        c == [k EXCEPT !.conn = IF r = "connect" THEN "closed"
                                ELSE "connected"]
    IN  IF r = "no_unit" THEN [a EXCEPT !.pc = "exited", !.log.out = r]
        ELSE IF r \in {"camera_open", "shm_open"} THEN ExitFailure(a, r)
        ELSE IF r = "ftruncate" THEN ExitFailure(o, r)
        ELSE IF r = "mmap"
        THEN ExitFailure([t EXCEPT !.metadata_mapped = MAP_FAILED], r)
        ELSE IF r = "socket" THEN ExitFailure(m, r)
        ELSE IF r = "get_vf_property" THEN ExitFailure(c, r)
        ELSE IF fmt.frametype \notin SupportedTypes
        THEN ExitFailure(c, "frametype")
        ELSE IF r = "start_viewfinder" THEN ExitFailure(c, r)
        ELSE [c EXCEPT !.pc = "streaming", !.log.out = r]

(* lines 156-260: r is the first call that fails, or "ok"; fmt is the   *)
(* frametype and geometry the camera defaults to                        *)
StartupStep(s0, fmt, r) ==
    LET a == [s0 EXCEPT !.log = [EmptyLog EXCEPT !.op = "startup"]]
        o == ShmOpen(a, MetadataName)
        t == Ftruncate(o, MetadataName, MetadataSize)
        m == [t EXCEPT !.metadata_mapped = MetaMapId,
                       !.maps = Upd(@, MetaMapId, MetadataName),
                       !.metadata = ZeroMetadata]
        k == [m EXCEPT !.sock = 3]
        c == [k EXCEPT !.conn = "connected"]
    IN  IF r = "no_unit" THEN [a EXCEPT !.pc = "exited", !.log.out = r]
        ELSE IF r \in {"camera_open", "shm_open"} THEN ExitFailure(a, r)
        ELSE IF r = "ftruncate" THEN ExitFailure(o, r)
        ELSE IF r = "mmap"
        THEN ExitFailure([t EXCEPT !.metadata_mapped = MAP_FAILED], r)
        ELSE IF r = "socket" THEN ExitFailure(m, r)
        ELSE IF r = "connect"
        THEN ExitFailure([k EXCEPT !.conn = "closed"], r)
        ELSE IF r = "get_vf_property" THEN ExitFailure(c, r)
        ELSE IF fmt.frametype \notin SupportedTypes
        THEN ExitFailure(c, "frametype")
        ELSE IF r = "start_viewfinder" THEN ExitFailure(c, r)
        ELSE [c EXCEPT !.pc = "streaming", !.log.out = r]

StopOutcomes == {"stop_viewfinder", "camera_close"}

(* lines 264-278: camera_stop_viewfinder or camera_close fails *)
StopFailureStep(s0, r) ==
    ExitFailure([s0 EXCEPT !.log = [EmptyLog EXCEPT !.op = "stop"]], r)

(* ------------------------------------------------------------------ *)
(* Environment: the frames the driver delivers, the calls that fail    *)
(* ------------------------------------------------------------------ *)
Delivered(n, odd) ==
    IF odd
    THEN [frametype |-> UnsupportedType, width |-> format.width,
          height |-> format.height, stride |-> format.stride, data |-> n]
    ELSE [frametype |-> format.frametype, width |-> format.width,
          height |-> format.height, stride |-> format.stride, data |-> n]

Streams(f) == f.frametype = "RGB8888" /\ f.width > 0 /\ f.height > 0

SendReturns(len) == {-1} \cup (1 .. len)

(* the whole set while the anomaly budget r lasts, the normal outcome after *)
Budgeted(S, normal, r) == IF r > 0 THEN S ELSE {normal}

Fault(x, normal) == IF x = normal THEN 0 ELSE 1

Cost(f, o) ==
      (IF f.frametype \in SupportedTypes THEN 0 ELSE 1)
    + (IF o.ring = "ok" THEN 0 ELSE 1)
    + (IF o.latest = "ok" THEN 0 ELSE 1)
    + (IF o.name = "ok" THEN 0 ELSE 1)
    + (IF o.malloc = "ok" THEN 0 ELSE 1)
    + (IF o.jpeg = "ok" THEN 0 ELSE 1)
    + (IF o.send1 = LenBytes THEN 0 ELSE 1)
    + (IF o.send2 \in {0, JpegLen(f.data)} THEN 0 ELSE 1)

(* ------------------------------------------------------------------ *)
(* Specification                                                       *)
(* ------------------------------------------------------------------ *)
NoBuffer == [frametype |-> UNSPECIFIED, width |-> 0, height |-> 0,
             stride |-> 0, framebuf |-> << >>]

StatsIdle ==
    /\ buffer = NoBuffer
    /\ channelAverage = [c \in Channels |-> [sum |-> 0, div |-> 0]]
    /\ reads = NoStats.reads
    /\ statpc = "idle"

NoReturn == [index |-> -1, live |-> FALSE, mapped |-> FALSE,
             head |-> 0, count |-> 0]

(* no thread inside processCameraData or get_latest_frame *)
ThreadsIdle ==
    /\ frame_mutex = "free"
    /\ ppc = "idle"
    /\ rpc = "idle"
    /\ latest_index = -1
    /\ ret = NoReturn

(* the process once camera_start_viewfinder has returned *)
Started ==
    /\ frame_buffer = [i \in Slots |-> ZeroFrame]
    /\ buffer_head = 0
    /\ buffer_count = 0
    /\ latest_shm_name = NULL
    /\ latest_mapped = NULL
    /\ latest_size = 0
    /\ metadata_mapped = MetaMapId
    /\ metadata = ZeroMetadata
    /\ name_record = ""
    /\ sock = 3
    /\ conn = "connected"
    /\ shm = [n \in Names |-> IF n = MetadataName
                              THEN [linked |-> TRUE, size |-> MetadataSize, data |-> 0]
                              ELSE NoSeg]
    /\ maps = (MetaMapId :> MetadataName)
    /\ freedAt = << >>
    /\ heap = << >>
    /\ wire = << >>
    /\ pc = "streaming"
    /\ ncb = 0
    /\ anomalies = 0
    /\ pushed = << >>
    /\ encoded = << >>
    /\ tdRuns = 0
    /\ log = EmptyLog

Init ==
    /\ Started
    /\ format \in cSupportedFrametypes
    /\ StatsIdle
    /\ ThreadsIdle

(* the next frame f the driver can hand over, with the results o of the *)
(* calls made for it, while the anomaly budget lasts                    *)
Deliveries ==
    UNION {
      LET f == Delivered(ncb + 1, odd)
          L == JpegLen(f.data)
          r0 == MaxAnomalies - anomalies - Fault(odd, FALSE)
      IN  UNION {
      LET r1 == r0 - Fault(ring, "ok")
      IN  UNION {
      LET r2 == r1 - Fault(latest, "ok")
      IN  UNION {
      LET r3 == r2 - Fault(name, "ok")
      IN  UNION {
      LET r4 == r3 - Fault(malloc, "ok")
      IN  UNION {
      LET r5 == r4 - Fault(jpeg, "ok")
          sends == Streams(f) /\ malloc = "ok" /\ jpeg = "ok"
      IN  UNION {
      LET r6 == r5 - Fault(send1, LenBytes)
      IN  { [f |-> f,
             o |-> [ring |-> ring, latest |-> latest, name |-> name,
                    malloc |-> malloc, jpeg |-> jpeg,
                    send1 |-> send1, send2 |-> send2]]
            : send2 \in IF sends THEN Budgeted(SendReturns(L), L, r6)
                        ELSE {0} }
      : send1 \in IF sends
                  THEN Budgeted(SendReturns(LenBytes), LenBytes, r5)
                  ELSE {LenBytes} }
      : jpeg \in IF Streams(f) /\ malloc = "ok"
                 THEN Budgeted({"ok", "null"}, "ok", r4) ELSE {"ok"} }
      : malloc \in IF Streams(f) THEN Budgeted({"ok", "fail"}, "ok", r3)
                   ELSE {"ok"} }
      : name \in Budgeted(SysOutcomes, "ok", r2) }
      : latest \in Budgeted(SysOutcomes, "ok", r1) }
      : ring \in Budgeted(SysOutcomes, "ok", r0) }
      : odd \in Budgeted(BOOLEAN, FALSE, MaxAnomalies - anomalies) }

Callback ==
    /\ pc = "streaming"
    /\ ncb < MaxCallbacks
    /\ \E d \in Deliveries :
          /\ anomalies' = anomalies + Cost(d.f, d.o)
          /\ \E s \in processCameraData(St, d.f, d.o) : Assign(s)
    /\ UNCHANGED format
    /\ UNCHANGED statVars
    /\ UNCHANGED thrVars

Teardown ==
    /\ pc = "streaming"
    /\ \E s \in TeardownStep(St) : Assign(s)
    /\ UNCHANGED << anomalies, format >>
    /\ UNCHANGED statVars
    /\ UNCHANGED thrVars

TeardownAgain ==
    /\ pc = "exited"
    /\ tdRuns = 1
    /\ \E s \in TeardownStep(St) : Assign(s)
    /\ UNCHANGED << anomalies, format >>
    /\ UNCHANGED statVars
    /\ UNCHANGED thrVars

Next == Callback \/ Teardown

Spec == Init /\ [][Next]_vars

NextRerun == Callback \/ Teardown \/ TeardownAgain

SpecRerun == Init /\ [][NextRerun]_vars

(* the camera may default to a frametype the program does not support *)
CameraDefaults ==
    cSupportedFrametypes \cup
        { [frametype |-> UnsupportedType, width |-> 2, height |-> 2,
           stride |-> 2] }

(* the process image at the entry of main *)
InitMain ==
    /\ frame_buffer = [i \in Slots |-> ZeroFrame]
    /\ buffer_head = 0
    /\ buffer_count = 0
    /\ latest_shm_name = NULL
    /\ latest_mapped = NULL
    /\ latest_size = 0
    /\ metadata_mapped = NULL
    /\ metadata = ZeroMetadata
    /\ name_record = ""
    /\ sock = -1
    /\ conn = "none"
    /\ shm = [n \in Names |-> NoSeg]
    /\ maps = << >>
    /\ freedAt = << >>
    /\ heap = << >>
    /\ wire = << >>
    /\ pc = "start"
    /\ ncb = 0
    /\ anomalies = 0
    /\ format \in CameraDefaults
    /\ pushed = << >>
    /\ encoded = << >>
    /\ tdRuns = 0
    /\ log = EmptyLog
    /\ StatsIdle
    /\ ThreadsIdle

Startup ==
    /\ pc = "start"
    /\ \E r \in SetupOutcomes : Assign(StartupStep(St, format, r))
    /\ UNCHANGED << anomalies, format >>
    /\ UNCHANGED statVars
    /\ UNCHANGED thrVars

StopFailure ==
    /\ pc = "streaming"
    /\ \E r \in StopOutcomes : Assign(StopFailureStep(St, r))
    /\ UNCHANGED << anomalies, format >>
    /\ UNCHANGED statVars
    /\ UNCHANGED thrVars

NextMain == Startup \/ Callback \/ StopFailure \/ Teardown

SpecMain == InitMain /\ [][NextMain]_vars

(* ------------------------------------------------------------------ *)
(* The channel averages on their own: one frame, one computation       *)
(* ------------------------------------------------------------------ *)
BytesPerPixel(t) == IF t \in Packed THEN 4 ELSE 2

StatFormats ==
    { [frametype |-> t, width |-> w, height |-> h,
       stride |-> BytesPerPixel(t) * w + p]
      : t \in SupportedTypes, w \in 1 .. MaxWidth, h \in 1 .. MaxHeight,
        p \in 0 .. MaxPad }

(* a frame buffer that is zero but for one byte *)
OneHot(fmt, k) ==
    [o \in 0 .. (fmt.height * fmt.stride - 1) |-> IF o = k THEN 255 ELSE 0]

ExampleBytes ==
    [o \in 0 .. 7 |-> << 10, 20, 30, 99, 40, 50, 60, 99 >>[o + 1]]

Frames(fmt) ==
    { OneHot(fmt, k) : k \in 0 .. (fmt.height * fmt.stride - 1) }
        \cup (IF fmt.width = 2 /\ fmt.height = 1 /\ fmt.stride = 8
              THEN {ExampleBytes} ELSE {})

InitStats ==
    /\ Started
    /\ format \in StatFormats
    /\ \E bytes \in Frames(format) :
          buffer = [frametype |-> format.frametype, width |-> format.width,
                    height |-> format.height, stride |-> format.stride,
                    framebuf |-> bytes]
    /\ channelAverage = [c \in Channels |-> [sum |-> 0, div |-> 0]]
    /\ reads = NoStats.reads
    /\ statpc = "ready"
    /\ ThreadsIdle

ComputeStats ==
    /\ statpc = "ready"
    /\ statpc' = "done"
    /\ channelAverage' = ChannelAverages(buffer).avg
    /\ reads' = ChannelAverages(buffer).reads
    /\ UNCHANGED << frame_buffer, buffer_head, buffer_count, latest_shm_name,
                    latest_mapped, latest_size, metadata_mapped, metadata,
                    name_record, sock, conn, shm, maps, freedAt, heap, wire,
                    pc, ncb, anomalies, format, pushed, encoded, tdRuns,
                    log, buffer >>
    /\ UNCHANGED thrVars

NextStats == ComputeStats

SpecStats == InitStats /\ [][NextStats]_vars

(* ------------------------------------------------------------------ *)
(* The callback thread and a thread in get_latest_frame, step by step  *)
(* ------------------------------------------------------------------ *)
Running == [St EXCEPT !.clock = 2 * ncb]

(* line 358: the callback is entered and takes the mutex *)
PLock ==
    /\ pc = "streaming"
    /\ ppc = "idle"
    /\ ncb < MaxCallbacks
    /\ frame_mutex = "free"
    /\ \E d \in Deliveries :
          /\ anomalies' = anomalies + Cost(d.f, d.o)
          /\ Assign(EnterCallback(St, d.f, d.o))
    /\ frame_mutex' = "producer"
    /\ ppc' = "locked"
    /\ UNCHANGED << format, rpc, latest_index, ret >>
    /\ UNCHANGED statVars

(* lines 360-367 *)
PEvict ==
    /\ ppc = "locked"
    /\ \E u \in EvictOldest(Running) : Assign(u)
    /\ ppc' = "evicted"
    /\ UNCHANGED << anomalies, format, frame_mutex, rpc, latest_index, ret >>
    /\ UNCHANGED statVars

(* lines 368-388 *)
PWrite ==
    /\ ppc = "evicted"
    /\ Assign(WriteFrame(Running, log.frame, log.out.ring))
    /\ ppc' = "written"
    /\ UNCHANGED << anomalies, format, frame_mutex, rpc, latest_index, ret >>
    /\ UNCHANGED statVars

(* line 389 *)
PUnlock ==
    /\ ppc = "written"
    /\ frame_mutex' = "free"
    /\ ppc' = "unlocked"
    /\ Assign(St)
    /\ UNCHANGED << anomalies, format, rpc, latest_index, ret >>
    /\ UNCHANGED statVars

(* lines 391-603 *)
PRest ==
    /\ ppc = "unlocked"
    /\ \E u \in AfterUnlock(Running, log.frame, log.out) : Assign(u)
    /\ ppc' = "idle"
    /\ UNCHANGED << anomalies, format, frame_mutex, rpc, latest_index, ret >>
    /\ UNCHANGED statVars

(* line 146 *)
RLock ==
    /\ pc = "streaming"
    /\ rpc \in {"idle", "returned"}
    /\ frame_mutex = "free"
    /\ frame_mutex' = "reader"
    /\ rpc' = "locked"
    /\ latest_index' = -1
    /\ ret' = NoReturn
    /\ Assign(St)
    /\ UNCHANGED << anomalies, format, ppc >>
    /\ UNCHANGED statVars

(* lines 147-150: the empty ring; the mutex is released before return *)
RCheck ==
    /\ rpc = "locked"
    /\ IF buffer_count = 0
       THEN frame_mutex' = "free" /\ rpc' = "unlocked"
       ELSE frame_mutex' = frame_mutex /\ rpc' = "checked"
    /\ ret' = [ret EXCEPT !.count = buffer_count]
    /\ Assign(St)
    /\ UNCHANGED << anomalies, format, ppc, latest_index >>
    /\ UNCHANGED statVars

(* line 151 *)
RIndex ==
    /\ rpc = "checked"
    /\ latest_index' = get_latest_frame(buffer_head, buffer_count)
    /\ ret' = [ret EXCEPT !.head = buffer_head]
    /\ rpc' = "indexed"
    /\ Assign(St)
    /\ UNCHANGED << anomalies, format, ppc, frame_mutex >>
    /\ UNCHANGED statVars

(* line 152 *)
RUnlock ==
    /\ rpc = "indexed"
    /\ frame_mutex' = "free"
    /\ rpc' = "unlocked"
    /\ Assign(St)
    /\ UNCHANGED << anomalies, format, ppc, latest_index, ret >>
    /\ UNCHANGED statVars

(* lines 149 and 153: return NULL or &frame_buffer[latest_index] *)
RReturn ==
    /\ rpc = "unlocked"
    /\ rpc' = "returned"
    /\ ret' = [ret EXCEPT
                 !.index = latest_index,
                 !.live = latest_index \in
                            { (buffer_head + k) % MAX_FRAMES
                              : k \in 0 .. (buffer_count - 1) },
                 !.mapped = /\ latest_index \in Slots
                            /\ frame_buffer[latest_index].mapped_data
                                  \in DOMAIN maps]
    /\ Assign(St)
    /\ UNCHANGED << anomalies, format, ppc, frame_mutex, latest_index >>
    /\ UNCHANGED statVars

NextReader ==
    \/ PLock \/ PEvict \/ PWrite \/ PUnlock \/ PRest
    \/ RLock \/ RCheck \/ RIndex \/ RUnlock \/ RReturn

SpecReader == Init /\ [][NextReader]_vars

TypeOK ==
    /\ buffer_head \in Slots
    /\ buffer_count \in 0 .. MAX_FRAMES

(* ------------------------------------------------------------------ *)
(* Properties                                                          *)
(* ------------------------------------------------------------------ *)
LiveSlots == { (buffer_head + k) % MAX_FRAMES : k \in 0 .. (buffer_count - 1) }

(* the segment a ring slot names, read through its shm_name pointer *)
SlotSegment(i) ==
    IF frame_buffer[i].shm_name \in DOMAIN heap
    THEN shm[heap[frame_buffer[i].shm_name]]
    ELSE NoSeg

(* payloads of the live frames, read in ring order from buffer_head *)
RingOrder ==
    [ k \in 1 .. buffer_count |->
        SlotSegment((buffer_head + k - 1) % MAX_FRAMES).data ]

LastOf(seq, k) == SubSeq(seq, Len(seq) - k + 1, Len(seq))

Payloads(seq) == [ k \in 1 .. Len(seq) |-> seq[k].data ]

Unsupported(f) == f.frametype \notin SupportedTypes

LatestCorrect ==
    pc = "streaming" /\ pushed # << >> =>
        LET i == get_latest_frame(buffer_head, buffer_count)
            f == pushed[Len(pushed)]
        IN  /\ i \in Slots
            /\ frame_buffer[i].frametype = f.frametype
            /\ frame_buffer[i].width = f.width
            /\ frame_buffer[i].height = f.height
            /\ frame_buffer[i].stride = f.stride
            /\ frame_buffer[i].data_size = get_frame_size(f)
            /\ frame_buffer[i].shm_name \in DOMAIN heap
            /\ heap[frame_buffer[i].shm_name] = FrameName(i)
            /\ SlotSegment(i).linked
            /\ SlotSegment(i).size = get_frame_size(f)
            /\ SlotSegment(i).data = f.data

(* the ring has wrapped, and the last callback's push was dropped *)
LatestCorrectWitness ==
    /\ pc = "streaming"
    /\ log.op = "callback"
    /\ ~log.stored
    /\ log.count0 = MAX_FRAMES
    /\ buffer_head # 0
    /\ SlotSegment(get_latest_frame(buffer_head, buffer_count)).data
         = pushed[Len(pushed)].data

(* C3: push failure atomicity. When shm_open, ftruncate or mmap fails    *)
(* in the push, buffer_head and buffer_count are what they were before.  *)
PushFailureAtomic ==
    log.op = "callback" /\ log.out.ring # "ok" =>
        /\ buffer_head = log.head0
        /\ buffer_count = log.count0
        /\ log.evicted = {}

(* C4: eviction policy. A frame is evicted only by a push that then adds *)
(* a frame, it is the oldest one, and no push lowers the frame count.    *)
EvictionOnlyToAdmit ==
    log.op = "callback" =>
        /\ buffer_count >= log.count0
        /\ (log.evicted # {} => log.stored /\ log.evicted = {log.head0})

(* C5: after every callback /camera_frame_<i> is linked and mapped by    *)
(* the producer exactly when slot i holds a live frame.                  *)
SegmentsMatchLiveFrames ==
    log.op = "callback" =>
        \A i \in Slots :
            ( /\ shm[FrameName(i)].linked
              /\ \E m \in DOMAIN maps : maps[m] = FrameName(i) )
            <=> i \in LiveSlots

(* C6: a frame of unrecognized frametype makes no downstream component   *)
(* act: no segment opened or unlinked, ring and latest slot unchanged,   *)
(* nothing sent, no channel averages.                                     *)
UnsupportedShortCircuits ==
    log.op = "callback" /\ Unsupported(log.frame) =>
        /\ log.opened = {}
        /\ log.unlinked = {}
        /\ log.evicted = {}
        /\ buffer_head = log.head0
        /\ buffer_count = log.count0
        /\ latest_mapped = log.latest0
        /\ log.sends = 0
        /\ log.stats # "averages"

(* C7: a frame of unrecognized frametype leaves the four fields of the   *)
(* metadata record as they were before the callback.                     *)
UnsupportedKeepsMetadata ==
    log.op = "callback" /\ Unsupported(log.frame) => metadata = log.meta0

RECURSIVE Framed(_)
Framed(blobs) ==
    IF blobs = << >> THEN << >>
    ELSE LenPrefix(Len(Head(blobs))) \o Head(blobs) \o Framed(Tail(blobs))

(* C8: stream framing. Whatever the two send calls return, the bytes on  *)
(* the transport are the records of the encoded frames: each an 8-byte   *)
(* length prefix followed by exactly that many bytes.                    *)
StreamFramed == wire = Framed(encoded)

(* C9: idempotent teardown. A second run of the teardown step releases   *)
(* nothing that the first run released and touches no freed name.        *)
TeardownIdempotent ==
    tdRuns = 2 => log.bad = {} /\ log.released = {} /\ log.unlinked = {}

(* C10: latest-frame failure policy. When shm_open, ftruncate or mmap    *)
(* fails in the publish, the slot either still holds the previous        *)
(* publication, mapped and linked, or is recorded as absent.             *)
LatestFailurePolicy ==
    log.op = "callback" /\ log.out.latest # "ok" =>
        \/ latest_mapped = NULL
        \/ /\ latest_mapped = log.latest0
           /\ latest_mapped \in DOMAIN maps
           /\ shm[LatestName].linked

(* C11: name pointer record. After every callback, when the record       *)
(* /camera_latest_name exists it holds the name of the latest-frame      *)
(* segment, that segment is linked, and after a publish of a supported   *)
(* frame whose calls all succeeded it holds that frame.                  *)
NameRecordResolves ==
    log.op = "callback" /\ shm[LatestNameRec].linked =>
        /\ name_record = LatestName
        /\ shm[LatestName].linked
        /\ (log.out.latest = "ok" /\ ~Unsupported(log.frame)
              => shm[LatestName].data = log.frame.data)

(* the stages of the callback that a frame f has to go through *)
StagesOf(f) ==
    {"store", "latest", "metadata", "name", "stats"}
        \cup (IF Streams(f) THEN {"encode"} ELSE {})

(* head, count, live slots, latest-slot handle and metadata record refer *)
(* only to mappings that exist and to segments that are linked           *)
SharedStateSound ==
    /\ buffer_head \in Slots
    /\ buffer_count \in 0 .. MAX_FRAMES
    /\ \A i \in LiveSlots :
          /\ frame_buffer[i].mapped_data \in DOMAIN maps
          /\ SlotSegment(i).linked
    /\ latest_mapped = NULL
         \/ (latest_mapped \in DOMAIN maps /\ shm[LatestName].linked)
    /\ metadata_mapped \in DOMAIN maps

(* C12: per-stage failure containment. In a callback for a supported     *)
(* frame in which a call failed, every later stage still ran (both sends *)
(* when the encode produced data), and the ring, the latest-slot handle  *)
(* and the metadata record refer to no released or never-made resource.  *)
StageFailureContained ==
    log.op = "callback" /\ ~Unsupported(log.frame)
        /\ Cost(log.frame, log.out) > 0 =>
        /\ log.stages = StagesOf(log.frame)
        /\ (Streams(log.frame) /\ log.out.malloc = "ok"
              /\ log.out.jpeg = "ok" => log.sends = 2)
        /\ SharedStateSound

(* the callback of this step encoded its frame *)
Encoded(l) ==
    /\ l.op = "callback"
    /\ Streams(l.frame)
    /\ l.out.malloc = "ok"
    /\ l.out.jpeg = "ok"

(* C13: transport failure absorption. Every callback that encodes its    *)
(* frame, whatever earlier sends or its own sends returned, makes        *)
(* exactly its prefix send and its data send once each, leaves the       *)
(* socket as it was, and runs to its end.                                *)
SendFailureAbsorbed ==
    [][ ncb' = ncb + 1 /\ Encoded(log') =>
          /\ log'.sends = 2
          /\ wire' = wire
                \o Sent(LenPrefix(JpegLen(log'.frame.data)), log'.out.send1)
                \o Sent(compress_to_jpeg(log'.frame.data), log'.out.send2)
          /\ sock' = sock
          /\ conn' = conn
          /\ conn' = "connected"
          /\ "stats" \in log'.stages ]_vars

(* a frame sent whole by a callback that follows one whose send failed *)
SendFailureAbsorbedWitness ==
    /\ Encoded(log)
    /\ log.sends = 2
    /\ log.out.send1 = LenBytes
    /\ log.out.send2 = JpegLen(log.frame.data)
    /\ Len(encoded) >= 2
    /\ wire # Framed(encoded)
    /\ conn = "connected"

(* C18: ring index invariant. In every state buffer_count is within      *)
(* 0..MAX_FRAMES and buffer_head within 0..MAX_FRAMES-1, and the slot a  *)
(* push wrote to was not holding a live frame when it was written.       *)
RingIndexInvariant ==
    /\ buffer_count >= 0
    /\ buffer_count <= MAX_FRAMES
    /\ buffer_head >= 0
    /\ buffer_head < MAX_FRAMES
    /\ (log.op = "callback" =>
          /\ log.target \in Slots
          /\ ~log.targetLive
          /\ (log.stored =>
                log.target = get_latest_frame(buffer_head, buffer_count)))

(* a push dropped at a full, wrapped ring: a frame was evicted for it *)
RingIndexInvariantWitness ==
    /\ log.op = "callback"
    /\ log.count0 = MAX_FRAMES
    /\ log.head0 # 0
    /\ log.evicted # {}
    /\ ~log.stored
    /\ log.target = log.head0
    /\ buffer_count = MAX_FRAMES - 1

(* C20: single release. No munmap is applied to a stale pointer or to a  *)
(* failed-map result, no shm_unlink reads a freed name, and after the    *)
(* teardown every mapping made for a ring frame or the latest slot has   *)
(* been unmapped.                                                         *)
SingleRelease ==
    /\ log.bad \cap {"munmap_invalid", "munmap_stale",
                     "name_use_after_free", "double_free"} = {}
    /\ (pc = "exited" => maps = << >>)

(* C14: fatal setup ordering. When a setup call of main fails the        *)
(* process has exited with failure status and no callback was processed; *)
(* every callback is processed with the metadata record mapped and the   *)
(* transport connected.                                                   *)
FatalSetupOrdering ==
    /\ (log.op = "startup" /\ log.out \in SetupFailures =>
          pc = "failed" /\ ncb = 0)
    /\ (pc \in {"start", "failed"} /\ log.op \in {"init", "startup"} =>
          ncb = 0)
    /\ (log.op = "callback" =>
          /\ metadata_mapped = MetaMapId
          /\ MetaMapId \in DOMAIN maps
          /\ maps[MetaMapId] = MetadataName
          /\ shm[MetadataName].linked
          /\ sock # -1
          /\ conn = "connected")

(* connect has failed after the metadata record was created and mapped *)
FatalSetupOrderingWitness ==
    /\ log.op = "startup"
    /\ log.out = "connect"
    /\ pc = "failed"
    /\ metadata_mapped = MetaMapId
    /\ shm[MetadataName].linked
    /\ conn = "closed"

(* C15: segments unlinked at exit. Once the process has exited, by the   *)
(* teardown or by a failure exit of startup or stop, none of the named   *)
(* segments it created is still linked.                                   *)
SegmentsUnlinkedAtExit ==
    pc \in {"exited", "failed"} => \A n \in Names : ~shm[n].linked

Range(seq) == { seq[n] : n \in 1 .. Len(seq) }

RECURSIVE SumAt(_, _)
SumAt(bytes, S) ==
    IF S = {} THEN 0
    ELSE LET o == CHOOSE x \in S : TRUE
         IN  bytes[o] + SumAt(bytes, S \ {o})

(* offsets y*stride + i of the bytes i of each line with i % period = k *)
LineOffsets(f, period, k) ==
    { y * f.stride + i
      : y \in 0 .. (f.height - 1),
        i \in { j \in 0 .. (LineBytes(f) - 1) : j % period = k } }

(* channel c was fed each byte of S once, and nothing else *)
Accumulated(c, S) ==
    /\ Range(reads[c]) = S
    /\ Len(reads[c]) = Cardinality(S)
    /\ channelAverage[c].sum = SumAt(buffer.framebuf, S)

(* C16: packed-layout channel averages. For an RGB8888 or BGR8888 frame  *)
(* channel c is the sum of the bytes at y*stride + 4*x + c (RGB) or      *)
(* y*stride + 4*x + (2-c) (BGR) over the width*height pixels, divided by *)
(* width*height; the example frame averages to (25, 35, 45).             *)
PackedAverages ==
    statpc = "done" /\ buffer.frametype \in Packed =>
        /\ \A c \in Channels :
              /\ Accumulated(c, LineOffsets(buffer, 4,
                       IF buffer.frametype = "RGB8888" THEN c ELSE 2 - c))
              /\ Len(reads[c]) = buffer.width * buffer.height
              /\ channelAverage[c].div = buffer.width * buffer.height
        /\ (buffer.frametype = "RGB8888" /\ buffer.framebuf = ExampleBytes =>
              /\ channelAverage[0].sum = 25 * channelAverage[0].div
              /\ channelAverage[1].sum = 35 * channelAverage[1].div
              /\ channelAverage[2].sum = 45 * channelAverage[2].div)

(* the averages of the example frame have been computed *)
PackedAveragesWitness ==
    /\ statpc = "done"
    /\ buffer.frametype = "RGB8888"
    /\ buffer.framebuf = ExampleBytes
    /\ buffer.stride = 8
    /\ channelAverage[0] = [sum |-> 50, div |-> 2]
    /\ channelAverage[1] = [sum |-> 70, div |-> 2]
    /\ channelAverage[2] = [sum |-> 90, div |-> 2]

(* C17: chroma-layout channel averages. For a YCBYCR or CBYCRY frame of  *)
(* any width the luma channel is fed width*height bytes and divided by   *)
(* width*height, each chroma channel is fed (width/2)*height bytes and   *)
(* divided by (width/2)*height, the bytes assigned by the ordering.      *)
ChromaAverages ==
    statpc = "done" /\ buffer.frametype \notin Packed =>
        LET ycbycr == buffer.frametype = "YCBYCR"
            half == (buffer.width \div 2) * buffer.height
        IN  /\ Accumulated(0, LineOffsets(buffer, 2, IF ycbycr THEN 0 ELSE 1))
            /\ Len(reads[0]) = buffer.width * buffer.height
            /\ channelAverage[0].div = buffer.width * buffer.height
            /\ Accumulated(1, LineOffsets(buffer, 4, IF ycbycr THEN 1 ELSE 0))
            /\ Accumulated(2, LineOffsets(buffer, 4, IF ycbycr THEN 3 ELSE 2))
            /\ Len(reads[1]) = half
            /\ Len(reads[2]) = half
            /\ channelAverage[1].div = half
            /\ channelAverage[2].div = half
            /\ (buffer.width = 2 /\ buffer.height = 1 =>
                  /\ channelAverage[0].div = 2
                  /\ channelAverage[1].div = 1
                  /\ channelAverage[2].div = 1)

ProducerInside == ppc \in {"locked", "evicted", "written"}

ReaderInside == rpc \in {"locked", "checked", "indexed"}

(* C19: push/latest mutual exclusion. The critical sections of the push  *)
(* and of get_latest_frame never overlap; get_latest_frame returns NULL  *)
(* exactly when the count it read is 0, otherwise the slot               *)
(* (head + count - 1) mod MAX_FRAMES of the head and count it read, and  *)
(* at its return that slot is a live slot of the ring whose data is      *)
(* mapped.                                                                *)
LatestReturnsLive ==
    /\ ~(ProducerInside /\ ReaderInside)
    /\ (rpc = "returned" =>
          /\ (ret.index = -1 <=> ret.count = 0)
          /\ (ret.index # -1 =>
                /\ ret.index = (ret.head + ret.count - 1) % MAX_FRAMES
                /\ ret.live
                /\ ret.mapped))

(* C21: metadata describes the current frame. After every callback the   *)
(* frametype, width, height and size of the metadata record are those    *)
(* of the slot get_latest_frame refers to, and the size is that of the   *)
(* linked /camera_latest segment.                                         *)
MetadataDescribesLatest ==
    log.op = "callback" =>
        LET i == get_latest_frame(buffer_head, buffer_count)
        IN  /\ i \in Slots
            /\ metadata.frametype = frame_buffer[i].frametype
            /\ metadata.width = frame_buffer[i].width
            /\ metadata.height = frame_buffer[i].height
            /\ metadata.size = frame_buffer[i].data_size
            /\ shm[LatestName].linked
            /\ metadata.size = shm[LatestName].size

(* the frame is RGB8888 with width > 0 and height > 0 *)
Qualifies(f) == f.frametype = "RGB8888" /\ f.width > 0 /\ f.height > 0

(* C22: stream gating. A callback writes to the transport only for an    *)
(* RGB8888 frame with width > 0 and height > 0; for any other frametype  *)
(* it sends nothing, and what it sends for a qualifying frame is the     *)
(* accepted part of the length prefix followed by that of the data.      *)
StreamGated ==
    [][ ncb' = ncb + 1 =>
          /\ (wire' # wire \/ log'.sends > 0 \/ encoded' # encoded
                => Qualifies(log'.frame))
          /\ (~Qualifies(log'.frame) =>
                wire' = wire /\ log'.sends = 0 /\ encoded' = encoded)
          /\ (log'.sends > 0 =>
                wire' = wire
                  \o Sent(LenPrefix(JpegLen(log'.frame.data)),
                          log'.out.send1)
                  \o Sent(compress_to_jpeg(log'.frame.data),
                          log'.out.send2)) ]_vars

(* an unrecognized frame arrives in an RGB8888 stream after a frame was  *)
(* sent, and leaves the transport as it was                               *)
StreamGatedWitness ==
    /\ log.op = "callback"
    /\ format.frametype = "RGB8888"
    /\ log.frame.frametype = UnsupportedType
    /\ log.sends = 0
    /\ Len(encoded) >= 1
    /\ wire = Framed(encoded)
    /\ wire # << >>
====
